---- MODULE Spec2Model ----
(***************************************************************************)
(* A model of the JSON-RPC transport of nestjs-json-rpc: the POST route    *)
(* callback and serializeResponse of src/src/server.ts, the listen/close   *)
(* lifecycle of JsonRpcServer, and the handlers, pipe, guard and           *)
(* interceptor of src/src/test-handler.ts.                                 *)
(*                                                                         *)
(* JavaScript values: an optional value is a set with at most one element, *)
(* {} is undefined and {v} is the value v, so that "property is undefined" *)
(* and "property was dropped by JSON.stringify" are both expressible.      *)
(***************************************************************************)
EXTENDS Integers, Sequences, FiniteSets, TLC

VARIABLES
    options,            \* JsonRpcServer.options: which properties the options object carries
    server,             \* JsonRpcServer.server: NULL or the listener it was assigned
    apps,               \* the HTTP listeners: the supplied adapter (0) and the ones listen() creates
    closeCbs,           \* callbacks registered with http.Server.close and not yet invoked
    listenCalls,        \* the calls of listen(): position and the listener each one uses
    closeCalls,         \* the calls of close(): position
    requests,           \* the invocations of the POST route callback
    DecorationsState    \* the module-level flags of test-handler.ts

vars == <<options, server, apps, closeCbs, listenCalls, closeCalls, requests, DecorationsState>>

lifecycleVars == <<options, server, apps, closeCbs, listenCalls, closeCalls>>

----------------------------------------------------------------------------
(* Bounds *)

MaxRequests == 1        \* route callback invocations
MaxListenCalls == 1     \* calls of listen()
MaxCloseCalls == 2      \* calls of close()
MaxInFlight == 2        \* invocations in flight at once in ConcurrentSpec

----------------------------------------------------------------------------
(* JavaScript values *)

Undefined == {}
Some(v) == {v}

\* mutants of OrDefault: no default at all; a default of 0
OrDefault_NoDefault(x, d) == x
OrDefault_DefaultZero(x, d) == IF x = Undefined \/ x = Some(0) THEN Some(0) ELSE x

\* x || d on an optional number: undefined and 0 are falsy
OrDefault(x, d) == IF x = Undefined \/ x = Some(0) THEN Some(d) ELSE x

\* an error object, by the three properties serializeResponse reads
ErrorObject(message, code, data) ==
    [code |-> code, message |-> Some(message), data |-> data]

\* new CodedRpcException(message, code, data): the error carries the message,
\* code and data it is constructed with
CodedRpcException(message, code, data) == ErrorObject(message, code, data)

\* new TypeError(message): an Error with a message and neither code nor data
TypeError(message) == ErrorObject(message, Undefined, Undefined)

----------------------------------------------------------------------------
(* Response Serializer: serializeResponse, then res.status(200).json(...) *)

\* mutants of serializeResponse: a fixed id; the error's data left out
serializeResponse_FixedId(id, response) ==
    IF response.tag = "error"
    THEN [jsonrpc |-> Some("2.0"),
          id      |-> Some("1"),
          error   |-> Some([code    |-> OrDefault(response.error.code, 500),
                            data    |-> response.error.data,
                            message |-> response.error.message])]
    ELSE [jsonrpc |-> Some("2.0"), id |-> Some("1"), result |-> response.value]

serializeResponse_NoData(id, response) ==
    IF response.tag = "error"
    THEN [jsonrpc |-> Some("2.0"),
          id      |-> id,
          error   |-> Some([code    |-> OrDefault(response.error.code, 500),
                            data    |-> Undefined,
                            message |-> response.error.message])]
    ELSE [jsonrpc |-> Some("2.0"), id |-> id, result |-> response.value]

serializeResponse(id, response) ==
    IF response.tag = "error"
    THEN [jsonrpc |-> Some("2.0"),
          id      |-> id,
          error   |-> Some([code    |-> OrDefault(response.error.code, 500),
                            data    |-> response.error.data,
                            message |-> response.error.message])]
    ELSE [jsonrpc |-> Some("2.0"), id |-> id, result |-> response.value]

\* JSON.stringify leaves out every property whose value is undefined
StripUndefined(obj) ==
    [k \in {p \in DOMAIN obj : obj[p] # Undefined} |-> obj[k]]

\* the body the client parses: the JSON text of the envelope, and of the
\* object under error or result
JsonBody(envelope) ==
    LET top == StripUndefined(envelope)
    IN  [k \in DOMAIN top |->
            IF k \in {"error", "result"}
            THEN {StripUndefined(e) : e \in top[k]} ELSE top[k]]

\* reading a property of a parsed body: undefined when the property is absent
Get(obj, k) == IF k \in DOMAIN obj THEN obj[k] ELSE Undefined

Has(obj, k) == k \in DOMAIN obj

\* mutant of HttpResponse: an error envelope goes out with status 500
HttpResponse_ErrorStatus(envelope) ==
    [status |-> IF "error" \in DOMAIN envelope THEN 500 ELSE 200,
     body |-> JsonBody(envelope)]

\* res.status(200).json(envelope)
HttpResponse(envelope) == [status |-> 200, body |-> JsonBody(envelope)]

----------------------------------------------------------------------------
(* Method Registry: the methods TestService exposes with @RpcMethod, with the
   stages their decorators attach, and one method, "custom", standing for an
   arbitrary registered handler. notExposed carries no @RpcMethod. *)

Staged == [pipes |-> TRUE, guard |-> TRUE, interceptors |-> TRUE]
Bare == [pipes |-> FALSE, guard |-> FALSE, interceptors |-> FALSE]

Registry ==
    [m \in {"test.invoke", "test.testError", "test.invokeClientService",
            "test.unrecognizedError", "test.injectContext", "custom"} |->
        IF m \in {"test.invoke", "test.testError", "test.invokeClientService"}
        THEN Staged ELSE Bare]

\* this.getHandlerByPattern(req.body.method): the handler, or null
\* mutant of getHandlerByPattern: an unknown method falls back to a handler
getHandlerByPattern_CatchAll(method) ==
    Some(IF method \in DOMAIN Registry THEN method ELSE "custom")

getHandlerByPattern(method) ==
    IF method \in DOMAIN Registry THEN Some(method) ELSE Undefined

----------------------------------------------------------------------------
(* Request inputs *)

Ids == {"1", "2"}
Methods == DOMAIN Registry \cup {"missing", "test.notExposed"}
Params == {[test |-> Some("x")]}
AuthHeaders == {Undefined, Some("token")}

\* the Authorization headers tried with a method: both for the methods that
\* read the metadata (through the guard or the context), none for the others
HeadersFor(method) ==
    IF method \in {"test.invoke", "test.testError", "test.invokeClientService",
                   "test.injectContext"}
    THEN AuthHeaders ELSE {Undefined}

\* codes and data a handler may put in a structured error
Codes == {0, 403}
DataValues == {Undefined, Some([detail |-> Some("d")])}

\* what an arbitrary handler may do: return a value (undefined, null, an object) ...
CustomValues == {Undefined, Some([null |-> Some(TRUE)]), Some([v |-> Some("v")])}

\* ... or raise an error object, the type serializeResponse is declared to
\* take: a structured error, an error that carries data and no code, an
\* unstructured error
CustomFailures ==
    {CodedRpcException("coded", Some(c), d) : c \in Codes, d \in DataValues}
    \cup {ErrorObject("uncoded", Undefined, d) : d \in DataValues \ {Undefined}}
    \cup {TypeError("boom")}

\* the outcomes of `handler(req.body.params, context)`: the call resolves and
\* the result emits a value (or nothing: undefined) ...
Returned(value) == [kind |-> "value", value |-> value]

\* ... a stage or the body raised a failure, which the Pipeline Executor hands
\* over as the error of the result ...
Raised(failure) == [kind |-> "failure", error |-> failure]

\* ... or the call itself rejects
Rejected == [kind |-> "reject"]

IdleRequest ==
    [pc |-> "idle", id |-> Undefined, method |-> "", params |-> Undefined,
     auth |-> Undefined, context |-> Undefined, trace |-> <<>>, denied |-> FALSE,
     outcome |-> [kind |-> "none"], writes |-> <<>>]

----------------------------------------------------------------------------
(* Pipeline Executor *)

\* the stage that follows `stage` for a handler with descriptor `desc`
\* ("start" is the call of the handler): pipes, guard chain, interceptors, body
StageAfter(desc, stage) ==
    CASE stage = "start" ->
            IF desc.pipes THEN "pipe"
            ELSE IF desc.guard THEN "guard"
            ELSE IF desc.interceptors THEN "interceptor" ELSE "body"
      [] stage = "pipe" ->
            IF desc.guard THEN "guard"
            ELSE IF desc.interceptors THEN "interceptor" ELSE "body"
      [] stage = "guard" -> IF desc.interceptors THEN "interceptor" ELSE "body"
      [] OTHER -> "body"

\* the failure a denying guard chain raises: the code is the implementer's
\* choice (unset, or the recommended 403)
GuardDenials ==
    {ErrorObject("Forbidden resource", c, Undefined) : c \in {Undefined, Some(403)}}

\* mutant of JsonRpcContext: one context object, of the first request, is kept
\* and handed to every handler call
JsonRpcContext_Shared(r) == [req |-> 1]

\* new JsonRpcContext(req, server): the context holds a reference to the
\* request object of its own invocation (r is the slot of that request); its
\* server field is read by nothing
JsonRpcContext(r) == [req |-> r]

\* JsonRpcContext.getMetadataByKey: this.req.get(metadataKey)
getMetadataByKey(context, metadataKey) ==
    IF metadataKey = "Authorization" THEN requests[context.req].auth ELSE Undefined

\* the context the handler of a request was called with
ContextOf(req) == CHOOSE context \in req.context : TRUE

\* TestGuard.canActivate: truthy Authorization metadata allows
canActivate(req) == getMetadataByKey(ContextOf(req), "Authorization") # Undefined

\* the bodies of TestService's methods: invoke and invokeClientService
\* resolve to their params, injectContext to the Authorization metadata,
\* testError and unrecognizedError throw
TestServiceThrows(req) == req.method \in {"test.testError", "test.unrecognizedError"}

TestServiceValue(req) ==
    IF req.method = "test.injectContext"
    THEN Some([key |-> getMetadataByKey(ContextOf(req), "Authorization")])
    ELSE req.params

TestServiceFailure(req) ==
    IF req.method = "test.testError"
    THEN CodedRpcException("RPC EXCEPTION", Some(403),
            Some([fromService |-> Some("Test Service"), params |-> req.params]))
    ELSE TypeError("Accidental server error")

----------------------------------------------------------------------------
(* Request Dispatcher: the POST route callback of listen() *)

Slots == DOMAIN requests

\* a request reaches the callback through a listener that has the route and is bound
Accepting == \E a \in DOMAIN apps : apps[a].route /\ apps[a].http = "listening"

InitialModuleState ==
    [pipeCalled |-> FALSE, guardCaled |-> FALSE, interceptorCalled |-> FALSE]

\* mutant of MethodNotFound: the method name left out of the message
MethodNotFound_NoName(method) ==
    CodedRpcException("Method not found", Some(404), Undefined)

\* the error of the not-found branch
MethodNotFound(method) ==
    CodedRpcException("Method not found: " \o method, Some(404), Undefined)

\* lines 94-103: look the handler up; answer 404 when there is none, else
\* build the context and call the handler, whose stages then run
Receive(r) ==
    /\ requests[r].pc = "idle"
    /\ r > 1 => requests[r - 1].pc # "idle"
    /\ Accepting
    /\ \E id \in Ids, method \in Methods, params \in Params :
       \E auth \in HeadersFor(method) :
        LET req == [IdleRequest EXCEPT !.id = Some(id), !.method = method,
                                       !.params = Some(params), !.auth = auth]
            handler == getHandlerByPattern(method)
        IN  IF handler = Undefined
            THEN requests' = [requests EXCEPT ![r] =
                    [req EXCEPT !.pc = "done",
                                !.writes = <<HttpResponse(serializeResponse(req.id,
                                    [tag |-> "error", error |-> MethodNotFound(method)]))>>]]
            ELSE requests' = [requests EXCEPT ![r] =
                    [req EXCEPT !.context = Some(JsonRpcContext(r)),
                                !.pc = StageAfter(
                                    Registry[CHOOSE h \in handler : TRUE], "start")]]
    /\ UNCHANGED <<lifecycleVars, DecorationsState>>

\* TestPipe.transform: sets pipeCalled and returns the value unchanged
RunPipe(r) ==
    /\ requests[r].pc = "pipe"
    /\ DecorationsState' = [DecorationsState EXCEPT !.pipeCalled = TRUE]
    /\ requests' = [requests EXCEPT ![r] =
            [@ EXCEPT !.pc = StageAfter(Registry[requests[r].method], "pipe"),
                      !.trace = Append(@, "pipe")]]
    /\ UNCHANGED lifecycleVars

\* TestGuard.canActivate: allows when the Authorization metadata is truthy;
\* a denial ends the handler call with a failure
RunGuard(r) ==
    /\ requests[r].pc = "guard"
    /\ IF canActivate(requests[r])
       THEN requests' = [requests EXCEPT ![r] =
                [@ EXCEPT !.pc = StageAfter(Registry[requests[r].method], "guard"),
                          !.trace = Append(@, "guard")]]
       ELSE \E failure \in GuardDenials :
                requests' = [requests EXCEPT ![r] =
                    [@ EXCEPT !.pc = "settled", !.denied = TRUE,
                              !.trace = Append(@, "guard"),
                              !.outcome = Raised(failure)]]
    /\ UNCHANGED <<lifecycleVars, DecorationsState>>

\* TestInterceptor.intercept: sets interceptorCalled and calls next.handle()
RunInterceptor(r) ==
    /\ requests[r].pc = "interceptor"
    /\ DecorationsState' = [DecorationsState EXCEPT !.interceptorCalled = TRUE]
    /\ requests' = [requests EXCEPT ![r] =
            [@ EXCEPT !.pc = "body", !.trace = Append(@, "interceptor")]]
    /\ UNCHANGED lifecycleVars

\* the body of a TestService method
RunTestBody(r) ==
    /\ requests[r].pc = "body"
    /\ requests[r].method # "custom"
    /\ IF TestServiceThrows(requests[r])
       THEN requests' = [requests EXCEPT ![r] =
                [@ EXCEPT !.pc = "settled", !.trace = Append(@, "body"),
                          !.outcome = Raised(TestServiceFailure(requests[r]))]]
       ELSE requests' = [requests EXCEPT ![r] =
                [@ EXCEPT !.pc = "settled", !.trace = Append(@, "body"),
                          !.outcome = Returned(TestServiceValue(requests[r]))]]
    /\ UNCHANGED <<lifecycleVars, DecorationsState>>

\* an arbitrary registered handler: it returns any value, raises any failure,
\* or its call rejects
RunCustomBody(r) ==
    /\ requests[r].pc = "body"
    /\ requests[r].method = "custom"
    /\ \E outcome \in {Returned(value) : value \in CustomValues}
                      \cup {Raised(failure) : failure \in CustomFailures}
                      \cup {Rejected} :
            requests' = [requests EXCEPT ![r] =
                [@ EXCEPT !.pc = "settled", !.trace = Append(@, "body"),
                          !.outcome = outcome]]
    /\ UNCHANGED <<lifecycleVars, DecorationsState>>

\* lines 103-106: `await handler(...)` resumes. A rejected call rejects the
\* callback's own promise, which nothing handles; otherwise the result is
\* turned into an observable, then a promise, and awaited
HandlerSettled(r) ==
    /\ requests[r].pc = "settled"
    /\ requests' = [requests EXCEPT ![r] =
            [@ EXCEPT !.pc = IF requests[r].outcome.kind = "reject"
                             THEN "uncaught" ELSE "awaitResult"]]
    /\ UNCHANGED <<lifecycleVars, DecorationsState>>

\* promiseResult.then(value => ({ value }), error => ({ error }))
ThenResponse(outcome) ==
    IF outcome.kind = "value"
    THEN [tag |-> "value", value |-> outcome.value]
    ELSE [tag |-> "error", error |-> outcome.error]

\* lines 106-111: the awaited response is serialized and written
ResultSettled(r) ==
    /\ requests[r].pc = "awaitResult"
    /\ LET response == ThenResponse(requests[r].outcome)
       IN  requests' = [requests EXCEPT ![r] =
                [@ EXCEPT !.pc = "done",
                          !.writes = Append(@, HttpResponse(
                                serializeResponse(requests[r].id, response)))]]
    /\ UNCHANGED <<lifecycleVars, DecorationsState>>

\* resetDecorationsState
resetDecorationsState ==
    /\ DecorationsState # InitialModuleState
    /\ DecorationsState' = InitialModuleState
    /\ UNCHANGED <<lifecycleVars, requests>>

----------------------------------------------------------------------------
(* Lifecycle Controller: listen() and close() *)

\* the options objects: hybrid carries adapter, standalone carries port and
\* maybe hostname; an object may also carry both or neither
OptionsSpace ==
    {o \in [adapter : BOOLEAN, port : BOOLEAN, hostname : BOOLEAN] : o.hostname => o.port}

isHybrid(o) == o.adapter

isStandalone(o) == o.port

AdapterApp == 0
AppIds == 0 .. MaxListenCalls
NoApp == [http |-> "none", route |-> FALSE]
NewApp == [http |-> "unbound", route |-> FALSE]

\* invokeAsync(fn): the promise of a callback-style call. It stays pending until
\* fn's callback is invoked, rejects when the callback gets an error, else resolves
invokeAsync(invoked, err) ==
    IF ~invoked THEN "pending" ELSE IF err THEN "rejected" ELSE "resolved"

\* http.Server.listen throws ERR_SERVER_ALREADY_LISTEN on a server that is
\* binding or bound
ListenThrows(app) == app.http \in {"binding", "listening"}

\* http.Server.close(cb) stops a server that has a handle; on a server that is
\* not running the callback gets ERR_SERVER_NOT_RUNNING
CloseStops(app) == app.http \in {"binding", "listening"}

\* mutant of Mount: the route is not attached
Mount_Nothing(app) == app

\* lines 93-112: app.getInstance().post(this.options.path, express.json(), callback)
Mount(app) == [app EXCEPT !.route = TRUE]

\* mutant of ListenCbInvoked: cb() is called right after app.listen(...)
ListenCbInvoked_AtOnce(o) == TRUE

\* lines 115-123: whether listen() itself invokes the callback of invokeAsync.
\* Standalone hands it to app.listen, which invokes it on 'listening'; otherwise
\* the else branch calls cb() at once
ListenCbInvoked(o) == ~isStandalone(o)

\* the position of a call after `await invokeAsync(...)` was reached
Awaited(promise) == IF promise = "pending" THEN "awaiting" ELSE promise

\* lines 84-124: choose the app, mount the route, and start binding (standalone)
\* or invoke the callback of invokeAsync at once
Listen(i) ==
    /\ listenCalls[i].pc = "idle"
    /\ i > 1 => listenCalls[i - 1].pc # "idle"
    /\ LET a == IF isHybrid(options) THEN AdapterApp ELSE i
           app == IF isHybrid(options) THEN apps[AdapterApp] ELSE NewApp
           mounted == Mount(app)
           promise == invokeAsync(ListenCbInvoked(options), FALSE)
       IN  IF isStandalone(options)
           THEN IF ListenThrows(app)
                THEN /\ apps' = [apps EXCEPT ![a] = mounted]
                     /\ listenCalls' = [listenCalls EXCEPT ![i] = [pc |-> "rejected", app |-> a]]
                     /\ UNCHANGED server
                ELSE /\ apps' = [apps EXCEPT ![a] = [mounted EXCEPT !.http = "binding"]]
                     /\ server' = Some(a)
                     /\ listenCalls' = [listenCalls EXCEPT ![i] =
                            [pc |-> Awaited(promise), app |-> a]]
           ELSE /\ apps' = [apps EXCEPT ![a] = mounted]
                /\ listenCalls' = [listenCalls EXCEPT ![i] =
                        [pc |-> Awaited(promise), app |-> a]]
                /\ UNCHANGED server
    /\ UNCHANGED <<options, closeCbs, closeCalls, requests, DecorationsState>>

\* the listener finished binding: 'listening' invokes the callbacks given to listen
HttpListening(a) ==
    /\ apps[a].http = "binding"
    /\ apps' = [apps EXCEPT ![a].http = "listening"]
    /\ listenCalls' = [i \in DOMAIN listenCalls |->
            IF listenCalls[i].pc = "awaiting" /\ listenCalls[i].app = a
            THEN [listenCalls[i] EXCEPT !.pc = invokeAsync(TRUE, FALSE)]
            ELSE listenCalls[i]]
    /\ UNCHANGED <<options, server, closeCbs, closeCalls, requests, DecorationsState>>

\* line 126: after the await, callback()
ListenResume(i) ==
    /\ listenCalls[i].pc = "resolved"
    /\ listenCalls' = [listenCalls EXCEPT ![i].pc = "done"]
    /\ UNCHANGED <<options, server, apps, closeCbs, closeCalls, requests, DecorationsState>>

\* the host of a supplied adapter binds it itself
HostListen ==
    /\ apps[AdapterApp].http = "unbound"
    /\ apps' = [apps EXCEPT ![AdapterApp].http = "listening"]
    /\ UNCHANGED <<options, server, closeCbs, listenCalls, closeCalls, requests, DecorationsState>>

\* mutant of CloseCbInvoked: cb() is called right after this.server.close()
CloseCbInvoked_AtOnce(srv) == srv # Undefined

\* line 132: whether close() itself invokes the callback of invokeAsync. It
\* never does: `this.server && this.server.close(cb)` hands the callback to the
\* listener, or drops it when server is null
CloseCbInvoked(srv) == FALSE

\* lines 129-134: standalone awaits invokeAsync(cb => this.server && this.server.close(cb))
Close(j) ==
    /\ closeCalls[j] = "idle"
    /\ j > 1 => closeCalls[j - 1] # "idle"
    /\ LET promise == invokeAsync(CloseCbInvoked(server), FALSE)
           after == IF promise = "resolved" THEN "done" ELSE Awaited(promise)
       IN  IF ~isStandalone(options)
           THEN /\ closeCalls' = [closeCalls EXCEPT ![j] = "done"]
                /\ UNCHANGED <<apps, closeCbs>>
           ELSE IF server = Undefined
           THEN /\ closeCalls' = [closeCalls EXCEPT ![j] = after]
                /\ UNCHANGED <<apps, closeCbs>>
           ELSE \E a \in server :
                /\ closeCalls' = [closeCalls EXCEPT ![j] = after]
                /\ closeCbs' = closeCbs \cup
                        {[call |-> j, app |-> a, err |-> ~CloseStops(apps[a])]}
                /\ apps' = IF CloseStops(apps[a])
                           THEN [apps EXCEPT ![a].http = "closing"] ELSE apps
    /\ UNCHANGED <<options, server, listenCalls, requests, DecorationsState>>

\* the listener emits 'close': every callback given to close is invoked
HttpClosed(a) ==
    /\ \E cb \in closeCbs : cb.app = a
    /\ apps' = IF apps[a].http = "closing" THEN [apps EXCEPT ![a].http = "closed"] ELSE apps
    /\ closeCalls' = [j \in DOMAIN closeCalls |->
            IF \E cb \in closeCbs : cb.app = a /\ cb.call = j
            THEN LET cb == CHOOSE c \in closeCbs : c.app = a /\ c.call = j
                 IN  IF invokeAsync(TRUE, cb.err) = "rejected" THEN "rejected" ELSE "done"
            ELSE closeCalls[j]]
    /\ closeCbs' = {cb \in closeCbs : cb.app # a}
    /\ UNCHANGED <<options, server, listenCalls, requests, DecorationsState>>

----------------------------------------------------------------------------
(* Specification *)

Init ==
    /\ options \in OptionsSpace
    /\ server = Undefined
    /\ apps = [a \in AppIds |-> IF a = AdapterApp /\ options.adapter THEN NewApp ELSE NoApp]
    /\ closeCbs = {}
    /\ listenCalls = [i \in 1 .. MaxListenCalls |-> [pc |-> "idle", app |-> 0]]
    /\ closeCalls = [j \in 1 .. MaxCloseCalls |-> "idle"]
    /\ requests = [r \in 1 .. MaxRequests |-> IdleRequest]
    /\ DecorationsState = InitialModuleState

\* listen() and close(), and the listeners' events
LifecycleNext ==
    \/ \E i \in DOMAIN listenCalls : Listen(i)
    \/ \E a \in DOMAIN apps : HttpListening(a)
    \/ \E i \in DOMAIN listenCalls : ListenResume(i)
    \/ HostListen
    \/ \E j \in DOMAIN closeCalls : Close(j)
    \/ \E a \in DOMAIN apps : HttpClosed(a)

\* the route callback and the stages of the handlers
DispatchNext ==
    \/ \E r \in Slots : Receive(r)
    \/ \E r \in Slots : RunPipe(r)
    \/ \E r \in Slots : RunGuard(r)
    \/ \E r \in Slots : RunInterceptor(r)
    \/ \E r \in Slots : RunTestBody(r)
    \/ \E r \in Slots : RunCustomBody(r)
    \/ \E r \in Slots : HandlerSettled(r)
    \/ \E r \in Slots : ResultSettled(r)
    \/ resetDecorationsState

\* one step of the invocation in slot r after it received its request
SlotStep(r) ==
    \/ RunPipe(r) \/ RunGuard(r) \/ RunInterceptor(r)
    \/ RunTestBody(r) \/ RunCustomBody(r)
    \/ HandlerSettled(r) \/ ResultSettled(r)

Next == LifecycleNext \/ DispatchNext

\* the whole server
Spec == Init /\ [][Next]_vars

\* the lifecycle alone: no request arrives
LifecycleSpec == Init /\ [][LifecycleNext]_vars

\* the lifecycle with the event loop's guarantees: a listener that is binding
\* reports it, a listener that was closed emits 'close', and a resolved await
\* resumes. Nothing obliges the caller to call listen() or close()
FairLifecycleSpec ==
    /\ LifecycleSpec
    /\ \A a \in AppIds : WF_vars(HttpListening(a)) /\ WF_vars(HttpClosed(a))
    /\ \A i \in 1 .. MaxListenCalls : WF_vars(ListenResume(i))

\* the states in which listen() has completed and the route is served: a hybrid
\* server whose host has bound the adapter, or a standalone server that is bound
\* (both are reachable under LifecycleSpec, see ServingReachable)
Serving(slots) ==
    /\ options \in {o \in OptionsSpace : o.adapter # o.port /\ ~o.hostname}
    /\ server = IF isStandalone(options) THEN Some(1) ELSE Undefined
    /\ apps = [a \in AppIds |->
                IF a = (IF isHybrid(options) THEN AdapterApp ELSE 1)
                THEN [http |-> "listening", route |-> TRUE] ELSE NoApp]
    /\ closeCbs = {}
    /\ listenCalls = [i \in 1 .. MaxListenCalls |->
                IF i = 1 THEN [pc |-> "done", app |-> IF isHybrid(options) THEN AdapterApp ELSE 1]
                ELSE [pc |-> "idle", app |-> 0]]
    /\ closeCalls = [j \in 1 .. MaxCloseCalls |-> "idle"]
    /\ requests = [r \in 1 .. slots |-> IdleRequest]
    /\ DecorationsState = InitialModuleState

ServingInit == Serving(MaxRequests)

\* the same server, with room for MaxInFlight invocations of the route callback
ConcurrentInit == Serving(MaxInFlight)

\* the dispatcher alone: requests to a server that is being served
DispatchSpec == ServingInit /\ [][DispatchNext]_vars

\* the dispatcher with several requests in flight: every invocation of the
\* route callback is suspended at its awaits, and the event loop resumes the
\* invocations in any order
ConcurrentSpec == ConcurrentInit /\ [][DispatchNext]_vars

\* every state of ServingInit is a state LifecycleSpec reaches: TLC finds
\* ~ServingReachable violated under LifecycleSpec once for each mode
ServingReachable == ServingInit

----------------------------------------------------------------------------
(* Properties of the Request Dispatcher, checked under DispatchSpec *)

\* the callback invocation r has ended: it returned, or its promise rejected
Ended(r) == requests[r].pc \in {"done", "uncaught"}

\* the one response of an invocation that wrote one
Body(r) == requests[r].writes[1].body

\* a stage or the body of the handler of r raised a failure
FailedWith(r) == requests[r].outcome.kind = "failure"

\* C1: every invocation of the route callback writes exactly one response
\* envelope, never zero and never two, whatever the outcome of the request.
C1_ExactlyOneResponse ==
    \A r \in Slots :
        /\ Len(requests[r].writes) <= 1
        /\ Ended(r) => Len(requests[r].writes) = 1

\* C2: no failure escapes the dispatcher: a request to a registered method
\* whose handling failed ends with an error envelope, never with an exception
\* the callback did not catch.
C2_NoFailureEscapes ==
    \A r \in Slots :
        /\ requests[r].pc # "uncaught"
        /\ (Ended(r) /\ requests[r].outcome.kind \in {"failure", "reject"})
                => (requests[r].pc = "done" /\ Has(Body(r), "error"))

\* C3: a request whose method is not in the registry is answered with an error
\* envelope of code 404, message "Method not found: " followed by the method
\* name, and no result.
C3_MethodNotFound ==
    \A r \in Slots :
        (requests[r].pc # "idle" /\ requests[r].method \notin DOMAIN Registry) =>
            /\ requests[r].pc = "done"
            /\ Len(requests[r].writes) = 1
            /\ Has(Body(r), "error")
            /\ ~Has(Body(r), "result")
            /\ \A e \in Body(r).error :
                /\ Get(e, "code") = Some(404)
                /\ Get(e, "message") = Some("Method not found: " \o requests[r].method)

C3_Witness ==
    \E r \in Slots : requests[r].pc = "done" /\ requests[r].method = "missing"

\* C4: every response envelope holds exactly one of result and error: a result
\* and no error when the handler succeeded (whatever it returned, undefined
\* included), an error and no result when it failed.
C4_ExactlyOneOfResultAndError ==
    \A r \in Slots : \A i \in 1 .. Len(requests[r].writes) :
        LET body == requests[r].writes[i].body
        IN  /\ Has(body, "result") # Has(body, "error")
            /\ requests[r].outcome.kind = "value" => Has(body, "result")
            /\ requests[r].outcome.kind = "failure" => Has(body, "error")

\* C5: the id of every response envelope is the id of its request, in every
\* outcome (success, handler failure, method not found).
C5_IdEchoed ==
    \A r \in Slots : \A i \in 1 .. Len(requests[r].writes) :
        Get(requests[r].writes[i].body, "id") = requests[r].id

C5_Witness ==
    /\ \E r \in Slots : requests[r].pc = "done" /\ requests[r].id = Some("2")
                        /\ requests[r].outcome.kind = "value"
                        /\ Get(Body(r), "id") = Some("2")

\* C6, as claimed: for every code C and data D, a handler that raises a
\* structured error carrying C and D is answered with error.code = C and
\* error.data = D.
C6_AnyCodeAndData ==
    \A r \in Slots :
        (Ended(r) /\ FailedWith(r) /\ requests[r].outcome.error.code # Undefined) =>
            /\ requests[r].pc = "done"
            /\ Has(Body(r), "error")
            /\ \A e \in Body(r).error :
                /\ Get(e, "code") = requests[r].outcome.error.code
                /\ Get(e, "data") = requests[r].outcome.error.data

\* C6, amended: for every nonzero code C and every data D, a handler that
\* raises a structured error carrying C and D is answered with error.code = C
\* and error.data = D (an undefined D as an absent data property).
C6_NonzeroCodeAndData ==
    \A r \in Slots :
        (Ended(r) /\ FailedWith(r)
            /\ requests[r].outcome.error.code \notin {Undefined, Some(0)}) =>
            /\ requests[r].pc = "done"
            /\ Has(Body(r), "error")
            /\ \A e \in Body(r).error :
                /\ Get(e, "code") = requests[r].outcome.error.code
                /\ Get(e, "data") = requests[r].outcome.error.data

C6_Witness ==
    \E r \in Slots :
        /\ requests[r].pc = "done" /\ requests[r].method = "custom" /\ FailedWith(r)
        /\ requests[r].outcome.error.code = Some(403)
        /\ requests[r].outcome.error.data # Undefined
        /\ \E e \in Body(r).error : Get(e, "data") # Undefined

C8_DeniedNeverRunsBody ==
    \A r \in Slots :
        requests[r].denied =>
            /\ \A k \in 1 .. Len(requests[r].trace) : requests[r].trace[k] # "body"
            /\ requests[r].pc \notin {"interceptor", "body"}
            /\ requests[r].outcome.kind = "failure"
            /\ Ended(r) =>
                /\ requests[r].pc = "done"
                /\ Len(requests[r].writes) = 1
                /\ Has(Body(r), "error") /\ ~Has(Body(r), "result")
                /\ \A e \in Body(r).error : Get(e, "code") \notin {Undefined, Some(0)}

C8_Witness ==
    \E r \in Slots :
        /\ requests[r].denied /\ requests[r].pc = "done"
        /\ requests[r].method = "test.invoke"
        /\ requests[r].trace = <<"pipe", "guard">>

\* C13: every response the route callback writes, whether it carries a result,
\* a handler's failure or the method-not-found error, has HTTP status 200.
C13_AlwaysStatus200 ==
    \A r \in Slots : \A i \in 1 .. Len(requests[r].writes) :
        requests[r].writes[i].status = 200

C13_Witness ==
    \E r \in Slots :
        /\ requests[r].pc = "done" /\ requests[r].method = "test.testError"
        /\ FailedWith(r) /\ ~requests[r].denied
        /\ Has(Body(r), "error")
        /\ requests[r].writes[1].status = 200

\* C14: for a request whose method the registry does not resolve, no pipe, no
\* guard, no interceptor and no handler body runs and no request context is
\* built: the invocation goes from the lookup straight to the 404 response.
C14_UnresolvedRunsNothing ==
    \A r \in Slots :
        (requests[r].pc # "idle" /\ requests[r].method \notin DOMAIN Registry) =>
            /\ requests[r].trace = <<>>
            /\ requests[r].context = Undefined
            /\ requests[r].outcome.kind = "none"
            /\ requests[r].pc = "done"
            /\ Len(requests[r].writes) = 1

C14_Witness ==
    \E r \in Slots :
        /\ requests[r].pc = "done" /\ requests[r].method = "test.notExposed"
        /\ requests[r].context = Undefined /\ requests[r].trace = <<>>
        /\ \E e \in Body(r).error : Get(e, "code") = Some(404)

----------------------------------------------------------------------------
(* Properties of concurrent requests, checked under ConcurrentSpec *)

\* the invocation in slot r is suspended between its request and its end
InFlight(r) == requests[r].pc \notin {"idle", "done", "uncaught"}

\* what the handler of a request to a registered method comes to when the
\* request is the only one, told from the request's own method, params and
\* Authorization header: a denial of the guard, the outcome of the method of
\* TestService, or whatever the arbitrary handler did
AloneOutcomes(req) ==
    IF Registry[req.method].guard /\ req.auth = Undefined
    THEN {Raised(failure) : failure \in GuardDenials}
    ELSE IF req.method = "custom" THEN {req.outcome}
    ELSE IF req.method = "test.injectContext"
    THEN {Returned(Some([key |-> req.auth]))}
    ELSE IF TestServiceThrows(req) THEN {Raised(TestServiceFailure(req))}
    ELSE {Returned(req.params)}

\* the responses a request receives when it is the only one
AloneResponses(req) ==
    LET outcomes == IF req.method \in DOMAIN Registry
                    THEN AloneOutcomes(req)
                    ELSE {Raised(MethodNotFound(req.method))}
    IN  {HttpResponse(serializeResponse(req.id, ThenResponse(outcome))) :
            outcome \in outcomes}

\* C16: under every interleaving of the requests in flight, a request that is
\* answered receives a response it would receive when processed alone, made of
\* its own id, params and Authorization metadata only; the context of a handler
\* call is the one of its own request; and an invocation that is suspended can
\* always take its next step, whatever the other invocations are doing.
C16_NoInterference ==
    \A r \in Slots :
        /\ requests[r].context \subseteq {[req |-> r]}
        /\ requests[r].pc = "done" =>
                /\ Len(requests[r].writes) = 1
                /\ requests[r].writes[1] \in AloneResponses(requests[r])
        /\ InFlight(r) => ENABLED SlotStep(r)

C16_Witness ==
    /\ requests[1].pc = "awaitResult" /\ requests[2].pc = "done"
    /\ requests[1].method = "test.injectContext"
    /\ requests[2].method = "test.injectContext"
    /\ requests[1].id = Some("1") /\ requests[2].id = Some("2")
    /\ requests[1].auth = Undefined /\ requests[2].auth = Some("token")
    /\ Get(Body(2), "id") = Some("2")
    /\ \E v \in Body(2).result : Get(v, "key") = Some("token")

----------------------------------------------------------------------------
(* Properties of the Lifecycle Controller, checked under FairLifecycleSpec *)

\* listen() has not been called
NeverListened == \A i \in DOMAIN listenCalls : listenCalls[i].pc = "idle"

\* C9: on a standalone server on which listen() was never called (server is
\* null), a call of close() completes, without error: it does not stay
\* pending for as long as listen() is not called.
C9_CloseWithoutListenCompletes ==
    \A j \in 1 .. MaxCloseCalls :
        (closeCalls[j] = "awaiting" /\ NeverListened /\ server = Undefined)
            ~> (closeCalls[j] = "done" \/ ~NeverListened)

\* C10: close() is idempotent: whatever calls of listen() and close() came
\* before, in either mode, a call of close() completes without error.
C10_EveryCloseCompletes ==
    \A j \in 1 .. MaxCloseCalls :
        (closeCalls[j] # "idle") ~> (closeCalls[j] = "done")

----------------------------------------------------------------------------
(* Properties of listen() and close(), checked under LifecycleSpec *)

\* C11: in hybrid mode the server never owns a socket: listen() mounts the
\* route on the supplied adapter and completes without calling the adapter's
\* listen (server stays null), and close() completes at once, without error
\* and without closing the host's listener.
C11_HybridOwnsNoSocket ==
    isHybrid(options) =>
        /\ server = Undefined
        /\ apps[AdapterApp].http \in {"unbound", "listening"}
        /\ \A i \in DOMAIN listenCalls :
                /\ listenCalls[i].pc \in {"idle", "resolved", "done"}
                /\ listenCalls[i].pc # "idle" => apps[AdapterApp].route
        /\ \A j \in DOMAIN closeCalls : closeCalls[j] \in {"idle", "done"}

\* C12: in standalone mode the promise listen() awaits resolves only in the
\* step in which the listener it started binding reports 'listening', and the
\* callback of listen() is invoked only after that: never before the listener
\* finished binding.
C12_CallbackAfterBound ==
    [][\A i \in DOMAIN listenCalls :
        isStandalone(options) =>
            /\ (listenCalls[i].pc # "resolved" /\ listenCalls'[i].pc = "resolved") =>
                    /\ apps[listenCalls'[i].app].http = "binding"
                    /\ apps'[listenCalls'[i].app].http = "listening"
            /\ (listenCalls[i].pc # "done" /\ listenCalls'[i].pc = "done") =>
                    listenCalls[i].pc = "resolved"
      ]_vars

C12_Witness ==
    /\ isStandalone(options) /\ ~isHybrid(options)
    /\ listenCalls[1].pc = "done" /\ listenCalls[1].app = 1
    /\ server = Some(1) /\ apps[1].http = "listening"

\* C17: in standalone mode a call of close() completes only in the step in
\* which the listener it closed emits 'close' and invokes, without an error,
\* the callback that call gave it: never before, while the listener is still
\* shutting down.
C17_CloseAfterShutdown ==
    [][\A j \in DOMAIN closeCalls :
        (isStandalone(options) /\ closeCalls[j] # "done" /\ closeCalls'[j] = "done") =>
            \E a \in DOMAIN apps :
                /\ closeCalls[j] = "awaiting"
                /\ [call |-> j, app |-> a, err |-> FALSE] \in closeCbs \ closeCbs'
                /\ apps'[a].http # "closing"
      ]_vars

C17_Witness ==
    /\ isStandalone(options) /\ ~isHybrid(options)
    /\ listenCalls[1].pc = "done"
    /\ closeCalls[1] = "done"
    /\ server = Some(1) /\ apps[1].http = "closed"

\* C18: for every options value the constructor accepts, the listener listen()
\* binds, kept in server, is one the server created itself and never the
\* supplied adapter; and once listen() has completed, exactly one of isHybrid
\* and isStandalone holds, so that listen() and close() act in one mode.
C18_ExactlyOneMode ==
    /\ AdapterApp \notin server
    /\ (\E i \in DOMAIN listenCalls : listenCalls[i].pc = "done") =>
            isHybrid(options) # isStandalone(options)

\* C19: in standalone mode the route is mounted before the listener starts
\* binding: in every reachable state a listener that the server created or
\* that it holds in server, and that is binding or accepts requests, has the
\* route attached.
C19_RouteBeforeBind ==
    isStandalone(options) =>
        \A a \in DOMAIN apps :
            ((a # AdapterApp \/ a \in server)
                /\ apps[a].http \in {"binding", "listening"}) => apps[a].route

C19_Witness ==
    /\ isStandalone(options) /\ ~isHybrid(options)
    /\ server = Some(1)
    /\ apps[1].http = "listening" /\ apps[1].route
    /\ Accepting

====
